---- MODULE Spec2Model ----
\* A model of the streaming JSON lexer of src/src/lexer.rs: the Lexer over an
\* input reader (peek by offset, consume by count), its keyword and number
\* sub-lexers, and the iterator adapter IntoIter.
\*
\* Characters are one-character strings; text (a token's raw, the input) is a
\* sequence of characters.  Option::None of a char is NoChar, of a Token NoToken.
EXTENDS Integers, Sequences, FiniteSets, TLC

VARIABLES
  input,          \* the whole text behind the input reader (never changes)
  pos,            \* input_reader: number of characters consumed so far
  current_token,  \* Lexer::current_token
  pc,             \* "start" (no lexer yet), "lexer", "iter", "dropped", "panicked"
  op,             \* the last call made: "none", "new", "consume", "peek", "into_iter", "next"
  res,            \* what new/consume returned (Ok or an Error), PanicRes when it unwound
  ret,            \* what peek/next returned (a token or NoToken)
  before,         \* history: [pos, tok] when the last new/consume/next began
  log,            \* history: the input reader calls made by the last new/consume/next
  yielded,        \* history: the tokens the iterator has returned so far
  iter_start,     \* history: [pos, tok] of the lexer when into_iter took it
  sched           \* history: for each next that advanced, the reader call that failed (0: none)

vars == <<input, pos, current_token, pc, op, res, ret, before, log, yielded, iter_start, sched>>

-----------------------------------------------------------------------------
\* Bounds of the model and the inputs it is run on: every text of at most
\* MaxLen characters over Alphabet, every text of the shape of a number
\* (sign, integer part, fraction, exponent, next character), and the sample
\* texts.

MaxLen == 3

Alphabet == {" ", ",", "t", "r", "u", "0", "1", "-", ".", "e", "_"}

Strings(A, n) == UNION {[1..k -> A] : k \in 0..n}

NumberShapes ==
  { s \o i \o f \o e \o t :
      s \in {<<>>, <<"-">>},
      i \in {<<"0">>, <<"7">>, <<"1","_","0">>},
      f \in {<<>>, <<".">>, <<".","5">>, <<".","_">>, <<".","_","2","_">>},
      e \in {<<>>, <<"e">>, <<"E","+">>, <<"e","-","3">>, <<"E","_","4">>, <<"e","+","_">>},
      t \in {<<>>, <<"x">>, <<"9">>} }

Samples ==
  { <<"t","r","u","e">>, <<"t","r","u","e","e">>, <<"f","a","l","s","e">>,
    <<"n","u","l","l",",">>, <<"f","a","l","s">>, <<"t","r","u","x","e">>,
    <<"n","u","l">>, <<"[","t","r","u">>, <<" ","7",".","5","E","+">>, <<"n","u","l","l","n","u","l","l">>, <<"f","a","l","s","e","t","r","u","e">>,
    <<"1","_","0","0","0">>, <<"1",".","5","e","+","1","0">>,
    <<"-","2",".","5","e","-","1","]">>, <<"-","x","1">>, <<"-","-","1">>, <<"+","1">>,
    <<"{","\n","\t","\r","}","[","]",":">>, <<",",",">>, <<" "," ">>,
    <<"9","e","1","_","t","r","u","e">>, <<"[","t","r","u","e",",","n","u","l","l","]">> }

Inputs == Strings(Alphabet, MaxLen) \cup NumberShapes \cup Samples

-----------------------------------------------------------------------------
\* Values.

NoChar == ""
NoToken == [kind |-> "None", raw |-> <<>>]
Token(kind, raw) == [kind |-> kind, raw |-> raw]

Ok == [repr |-> "Ok", kw |-> <<>>]
InputReaderErr == [repr |-> "InputReader", kw |-> <<>>]
ExpectedDigit == [repr |-> "ExpectedDigit", kw |-> <<>>]
ExpectedKeyword(kw) == [repr |-> "ExpectedKeyword", kw |-> kw]
PanicRes == [repr |-> "Panic", kw |-> <<>>]
NoRes == [repr |-> "None", kw |-> <<>>]

KwNull == <<"n","u","l","l">>
KwTrue == <<"t","r","u","e">>
KwFalse == <<"f","a","l","s","e">>

Digits == {"0","1","2","3","4","5","6","7","8","9"}
NonZeroDigits == Digits \ {"0"}

-----------------------------------------------------------------------------
\* The input reader (crate::input_reader::ReadInput).  A reader value r is
\* [pos, calls, fail, log]: the read position, the number of consume calls
\* made in the current lexer call, the ordinal of the consume call that fails
\* (0: none fails), and the calls made so far.

Reader(p, fail) == [pos |-> p, calls |-> 0, fail |-> fail, log |-> <<>>]

CharAt(p, k) == IF p + k < Len(input) THEN input[p + k + 1] ELSE NoChar

\* peek(offset): the character offset places ahead, or none past the end.
ReadInput_peek(r, k) ==
  [ r |-> [r EXCEPT !.log = Append(@, [call |-> "peek", arg |-> k, out |-> CharAt(r.pos, k)])],
    c |-> CharAt(r.pos, k) ]

\* consume(count): advances the read position by count, or fails and leaves it.
ReadInput_consume(r, count) ==
  LET failed == (r.calls + 1 = r.fail) IN
  [ r |-> [ pos |-> IF failed THEN r.pos ELSE r.pos + count,
            calls |-> r.calls + 1,
            fail |-> r.fail,
            log |-> Append(r.log, [call |-> "consume", arg |-> count,
                                   out |-> IF failed THEN "Err" ELSE "Ok"]) ],
    ok |-> ~failed ]

-----------------------------------------------------------------------------
\* Lexer helpers.  Each returns [r, res, val]: the reader afterwards, Ok or the
\* error returned (PanicRes when an unwrap panicked), and the value.  A local
\* operator's parameter stands for the value a let binding of the source holds.

Done(r, rs, val) == [r |-> r, res |-> rs, val |-> val]

\* Mutant: the character is consumed whatever the peek returned.
advance_input_reader_blind(r) ==
  LET consumed(q, c) == IF q.ok THEN Done(q.r, Ok, c) ELSE Done(q.r, InputReaderErr, NoChar)
      peeked(p) == consumed(ReadInput_consume(p.r, 1), p.c)
  IN peeked(ReadInput_peek(r, 0))

\* Mutant: a failure of the reader's consume is swallowed as end of input.
advance_input_reader_swallow(r) ==
  LET consumed(q, c) == IF q.ok THEN Done(q.r, Ok, c) ELSE Done(q.r, Ok, NoChar)
      peeked(p) == IF p.c # NoChar THEN consumed(ReadInput_consume(p.r, 1), p.c)
                   ELSE Done(p.r, Ok, NoChar)
  IN peeked(ReadInput_peek(r, 0))

advance_input_reader(r) ==
  LET consumed(q, c) == IF q.ok THEN Done(q.r, Ok, c) ELSE Done(q.r, InputReaderErr, NoChar)
      peeked(p) == IF p.c # NoChar THEN consumed(ReadInput_consume(p.r, 1), p.c)
                   ELSE Done(p.r, Ok, NoChar)
  IN peeked(ReadInput_peek(r, 0))

\* The next element of (0..kw.len() - 1).filter_map(|k| peek(k)) from index k:
\* [r, c, k] with c = NoChar when the range is used up.
RECURSIVE actual_next(_, _, _)
actual_next(r, kw, k) ==
  LET peeked(p) == IF p.c # NoChar THEN [r |-> p.r, c |-> p.c, k |-> k + 1]
                   ELSE actual_next(p.r, kw, k + 1)
  IN IF k >= Len(kw) - 1 THEN [r |-> r, c |-> NoChar, k |-> k]
     ELSE peeked(ReadInput_peek(r, k))

\* Iterator::ne of the lookahead against kw.chars().skip(1), element by element;
\* j counts the elements of the keyword's remainder already compared.
RECURSIVE actual_ne(_, _, _, _)
actual_ne(r, kw, k, j) ==
  LET compare(x) ==
        IF x.c = NoChar THEN [r |-> x.r, ne |-> (j # Len(kw) - 1)]
        ELSE IF j = Len(kw) - 1 THEN [r |-> x.r, ne |-> TRUE]
        ELSE IF x.c # kw[j + 2] THEN [r |-> x.r, ne |-> TRUE]
        ELSE actual_ne(x.r, kw, x.k, j + 1)
  IN compare(actual_next(r, kw, k))

\* Mutant: a matched keyword takes the character that follows it as well.
match_keyword_overrun(r, kw) ==
  LET consumed(q) == IF q.ok THEN Done(q.r, Ok, kw) ELSE Done(q.r, InputReaderErr, <<>>)
      compared(a) == IF a.ne THEN Done(a.r, ExpectedKeyword(kw), <<>>)
                     ELSE consumed(ReadInput_consume(a.r, Len(kw)))
  IN compared(actual_ne(r, kw, 0, 0))

\* Mutant: a mismatch skips the character it stopped at.
match_keyword_skip(r, kw) ==
  LET consumed(q) == IF q.ok THEN Done(q.r, Ok, kw) ELSE Done(q.r, InputReaderErr, <<>>)
      compared(a) == IF a.ne THEN Done(ReadInput_consume(a.r, 1).r, ExpectedKeyword(kw), <<>>)
                     ELSE consumed(ReadInput_consume(a.r, Len(kw) - 1))
  IN compared(actual_ne(r, kw, 0, 0))

match_keyword(r, kw) ==
  LET consumed(q) == IF q.ok THEN Done(q.r, Ok, kw) ELSE Done(q.r, InputReaderErr, <<>>)
      compared(a) == IF a.ne THEN Done(a.r, ExpectedKeyword(kw), <<>>)
                     ELSE consumed(ReadInput_consume(a.r, Len(kw) - 1))
  IN compared(actual_ne(r, kw, 0, 0))

\* Mutant: an underscore is kept in the digits.
RECURSIVE consume_digits_keep(_, _)
consume_digits_keep(r, digits) ==
  LET consumed(q, ds) == IF q.ok THEN consume_digits_keep(q.r, ds)
                         ELSE Done(q.r, InputReaderErr, <<>>)
      peeked(p) ==
        IF p.c \in Digits \cup {"_"} THEN consumed(ReadInput_consume(p.r, 1), Append(digits, p.c))
        ELSE Done(p.r, Ok, digits)
  IN peeked(ReadInput_peek(r, 0))

RECURSIVE consume_digits_loop(_, _)
consume_digits_loop(r, digits) ==
  LET consumed(q, ds) == IF q.ok THEN consume_digits_loop(q.r, ds)
                         ELSE Done(q.r, InputReaderErr, <<>>)
      peeked(p) ==
        IF p.c = "_" THEN consumed(ReadInput_consume(p.r, 1), digits)
        ELSE IF p.c \in Digits THEN consumed(ReadInput_consume(p.r, 1), Append(digits, p.c))
        ELSE Done(p.r, Ok, digits)
  IN peeked(ReadInput_peek(r, 0))

consume_digits(r) == consume_digits_loop(r, <<>>)

\* self.advance_input_reader().unwrap(): an Err panics.
advance_unwrap(r) ==
  LET unwrap(a) == IF a.res = Ok THEN a ELSE Done(a.r, PanicRes, NoChar)
  IN unwrap(advance_input_reader(r))

\* Mutant: an exponent without digits is accepted.
number_exponent_lenient(r, literal) ==
  LET digits(exponent, lit) ==
        IF exponent.res # Ok THEN Done(exponent.r, exponent.res, <<>>)
        ELSE Done(exponent.r, Ok, lit \o exponent.val)
      signed(b, lit) == IF b.res # Ok THEN Done(b.r, b.res, <<>>)
                        ELSE digits(consume_digits(b.r), lit)
      sign(s, lit) == IF s.c \in {"-", "+"} THEN signed(advance_unwrap(s.r), Append(lit, s.c))
                      ELSE digits(consume_digits(s.r), lit)
      marked(a, lit) == IF a.res # Ok THEN Done(a.r, a.res, <<>>)
                        ELSE sign(ReadInput_peek(a.r, 0), lit)
      marker(c) == marked(advance_unwrap(c.r), Append(literal, c.c))
      peeked(p) == IF p.c \in {"e", "E"} THEN marker(ReadInput_peek(p.r, 0))
                   ELSE Done(p.r, Ok, literal)
  IN peeked(ReadInput_peek(r, 0))

\* The exponent part of match_number.
number_exponent(r, literal) ==
  LET digits(exponent, lit) ==
        IF exponent.res # Ok THEN Done(exponent.r, exponent.res, <<>>)
        ELSE IF exponent.val = <<>> THEN Done(exponent.r, ExpectedDigit, <<>>)
        ELSE Done(exponent.r, Ok, lit \o exponent.val)
      signed(b, lit) == IF b.res # Ok THEN Done(b.r, b.res, <<>>)
                        ELSE digits(consume_digits(b.r), lit)
      sign(s, lit) == IF s.c \in {"-", "+"} THEN signed(advance_unwrap(s.r), Append(lit, s.c))
                      ELSE digits(consume_digits(s.r), lit)
      marked(a, lit) == IF a.res # Ok THEN Done(a.r, a.res, <<>>)
                        ELSE sign(ReadInput_peek(a.r, 0), lit)
      marker(c) == marked(advance_unwrap(c.r), Append(literal, c.c))
      peeked(p) == IF p.c \in {"e", "E"} THEN marker(ReadInput_peek(p.r, 0))
                   ELSE Done(p.r, Ok, literal)
  IN peeked(ReadInput_peek(r, 0))

\* Mutant: an empty fraction is accepted.
number_fraction_lenient(r, literal) ==
  LET digits(fractional) ==
        IF fractional.res # Ok THEN Done(fractional.r, fractional.res, <<>>)
        ELSE number_exponent(fractional.r, Append(literal, ".") \o fractional.val)
      dotted(a) == IF a.res # Ok THEN Done(a.r, a.res, <<>>)
                   ELSE digits(consume_digits(a.r))
      peeked(p) == IF p.c = "." THEN dotted(advance_unwrap(p.r))
                   ELSE number_exponent(p.r, literal)
  IN peeked(ReadInput_peek(r, 0))

\* The fractional part of match_number, then the exponent part.
number_fraction(r, literal) ==
  LET digits(fractional) ==
        IF fractional.res # Ok THEN Done(fractional.r, fractional.res, <<>>)
        ELSE IF fractional.val = <<>> THEN Done(fractional.r, ExpectedDigit, <<>>)
        ELSE number_exponent(fractional.r, Append(literal, ".") \o fractional.val)
      dotted(a) == IF a.res # Ok THEN Done(a.r, a.res, <<>>)
                   ELSE digits(consume_digits(a.r))
      peeked(p) == IF p.c = "." THEN dotted(advance_unwrap(p.r))
                   ELSE number_exponent(p.r, literal)
  IN peeked(ReadInput_peek(r, 0))

\* Mutant: a digit run is consumed after a leading 0 as after any digit.
number_integer_zero_run(r, literal, first_digit) ==
  LET digits(d) == IF d.res # Ok THEN Done(d.r, d.res, <<>>)
                   ELSE number_fraction(d.r, literal \o d.val)
  IN IF first_digit \in Digits THEN digits(consume_digits(r))
     ELSE Done(r, ExpectedDigit, <<>>)

\* The integer part of match_number, given the digit that establishes it.
number_integer(r, literal, first_digit) ==
  LET digits(d) == IF d.res # Ok THEN Done(d.r, d.res, <<>>)
                   ELSE number_fraction(d.r, literal \o d.val)
  IN IF first_digit \in NonZeroDigits THEN digits(consume_digits(r))
     ELSE IF first_digit = "0" THEN number_fraction(r, literal)
     ELSE Done(r, ExpectedDigit, <<>>)

\* Mutant: a non-digit after the sign is looked at and left in the input.
match_number_keeps_nondigit(r, first_digit) ==
  LET signed(a) == IF a.res # Ok THEN Done(a.r, a.res, <<>>)
                   ELSE IF a.val = NoChar THEN Done(a.r, ExpectedDigit, <<>>)
                   ELSE number_integer(a.r, <<"-", a.val>>, a.val)
      looked(p) == IF p.c # NoChar /\ p.c \notin Digits THEN Done(p.r, ExpectedDigit, <<>>)
                   ELSE signed(advance_input_reader(p.r))
  IN IF first_digit = "-" THEN looked(ReadInput_peek(r, 0))
     ELSE number_integer(r, <<first_digit>>, first_digit)

\* Mutant: the sign is left out of the literal.
match_number_drops_sign(r, first_digit) ==
  LET signed(a) == IF a.res # Ok THEN Done(a.r, a.res, <<>>)
                   ELSE IF a.val = NoChar THEN Done(a.r, ExpectedDigit, <<>>)
                   ELSE number_integer(a.r, <<a.val>>, a.val)
  IN IF first_digit = "-" THEN signed(advance_input_reader(r))
     ELSE number_integer(r, <<first_digit>>, first_digit)

match_number(r, first_digit) ==
  LET signed(a) == IF a.res # Ok THEN Done(a.r, a.res, <<>>)
                   ELSE IF a.val = NoChar THEN Done(a.r, ExpectedDigit, <<>>)
                   ELSE number_integer(a.r, <<"-", a.val>>, a.val)
  IN IF first_digit = "-" THEN signed(advance_input_reader(r))
     ELSE number_integer(r, <<first_digit>>, first_digit)

\* Mutant: every keyword is given the kind Literal/Boolean.
literal_token_boolean(kind, m) ==
  IF m.res # Ok THEN Done(m.r, m.res, NoToken)
  ELSE IF kind = "Literal/Null" THEN Done(m.r, Ok, Token("Literal/Boolean", m.val))
  ELSE Done(m.r, Ok, Token(kind, m.val))

\* A matched literal's text as a token of the given kind (the ? of each arm).
literal_token(kind, m) ==
  IF m.res = Ok THEN Done(m.r, Ok, Token(kind, m.val)) ELSE Done(m.r, m.res, NoToken)

\* Mutant: the tab is missing from the whitespace arm.
single_char_kind_no_tab(c) ==
  CASE c \in {" ", "\n", "\r"} -> "Whitespace"
    [] c = "," -> "Comma"
    [] c = "{" -> "OpenBrace"
    [] c = "}" -> "CloseBrace"
    [] c = "[" -> "OpenBracket"
    [] c = "]" -> "CloseBracket"
    [] c = ":" -> "Colon"
    [] OTHER -> "Unknown"

\* The kind of a token made of the one character c (the arms of the match in
\* Lexer::consume that call no sub-lexer).
single_char_kind(c) ==
  CASE c \in {" ", "\n", "\r", "\t"} -> "Whitespace"
    [] c = "," -> "Comma"
    [] c = "{" -> "OpenBrace"
    [] c = "}" -> "CloseBrace"
    [] c = "[" -> "OpenBracket"
    [] c = "]" -> "CloseBracket"
    [] c = ":" -> "Colon"
    [] OTHER -> "Unknown"

\* Mutant: the arms of t and n carry each other's kind.
classify_swapped(r, c) ==
  CASE c = "n" -> literal_token("Literal/Boolean", match_keyword(r, KwNull))
    [] c = "t" -> literal_token("Literal/Null", match_keyword(r, KwTrue))
    [] c = "f" -> literal_token("Literal/Boolean", match_keyword(r, KwFalse))
    [] c \in Digits \cup {"-"} -> literal_token("Literal/Number", match_number(r, c))
    [] OTHER -> Done(r, Ok, Token(single_char_kind(c), <<c>>))

\* The match of Lexer::consume on the character just consumed: [r, res, val]
\* with val the token.
classify(r, c) ==
  CASE c = "n" -> literal_token("Literal/Null", match_keyword(r, KwNull))
    [] c = "t" -> literal_token("Literal/Boolean", match_keyword(r, KwTrue))
    [] c = "f" -> literal_token("Literal/Boolean", match_keyword(r, KwFalse))
    [] c \in Digits \cup {"-"} -> literal_token("Literal/Number", match_number(r, c))
    [] OTHER -> Done(r, Ok, Token(single_char_kind(c), <<c>>))

\* Mutant: the first line, which clears current_token, is missing.
consume_keeps_token(r, tok) ==
  LET cleared == tok
      stored(m) == [r |-> m.r, res |-> m.res, tok |-> IF m.res = Ok THEN m.val ELSE cleared]
      advanced(a) == IF a.res # Ok THEN [r |-> a.r, res |-> a.res, tok |-> cleared]
                     ELSE IF a.val = NoChar THEN [r |-> a.r, res |-> Ok, tok |-> cleared]
                     ELSE stored(classify(a.r, a.val))
  IN advanced(advance_input_reader(r))

\* Lexer::consume on a lexer holding reader r and current token tok:
\* [r, res, tok], the reader, the result and the current token afterwards.
\* The first line clears current_token; it is set again only at the end of a
\* call that succeeds on a character.
consume(r, tok) ==
  LET cleared == NoToken
      stored(m) == [r |-> m.r, res |-> m.res, tok |-> IF m.res = Ok THEN m.val ELSE cleared]
      advanced(a) == IF a.res # Ok THEN [r |-> a.r, res |-> a.res, tok |-> cleared]
                     ELSE IF a.val = NoChar THEN [r |-> a.r, res |-> Ok, tok |-> cleared]
                     ELSE stored(classify(a.r, a.val))
  IN advanced(advance_input_reader(r))

\* Lexer::peek: the current token (lines 119-122).
peek(tok) == tok

-----------------------------------------------------------------------------
\* The state machine: one action per public operation.

\* The reader's consume calls that can fail in a lexer call begun at position p:
\* every consume that succeeds moves on by at least one character.
Faults(p) == 0..(Len(input) - p)

Init ==
  /\ input \in Inputs
  /\ pos = 0
  /\ current_token = NoToken
  /\ pc = "start"
  /\ op = "none"
  /\ res = NoRes
  /\ ret = NoToken
  /\ before = [pos |-> 0, tok |-> NoToken]
  /\ log = <<>>
  /\ yielded = <<>>
  /\ iter_start = [pos |-> 0, tok |-> NoToken]
  /\ sched = <<>>

\* Mutant: construction advances a second time after a first success.
New_two_steps(fail) ==
  LET built(c) ==
        /\ pos' = c.r.pos
        /\ current_token' = c.tok
        /\ res' = c.res
        /\ log' = c.r.log
        /\ pc' = IF c.res = Ok THEN "lexer"
                 ELSE IF c.res = PanicRes THEN "panicked" ELSE "dropped"
      again(c) == IF c.res = Ok THEN built(consume(Reader(c.r.pos, 0), c.tok))
                  ELSE built(c)
  IN
  /\ pc = "start"
  /\ again(consume(Reader(pos, fail), current_token))
  /\ op' = "new"
  /\ ret' = NoToken
  /\ before' = [pos |-> pos, tok |-> current_token]
  /\ UNCHANGED <<input, yielded, iter_start, sched>>

\* Lexer::new: one consume; the lexer exists only if it succeeded.
New(fail) ==
  LET built(c) ==
        /\ pos' = c.r.pos
        /\ current_token' = c.tok
        /\ res' = c.res
        /\ log' = c.r.log
        /\ pc' = IF c.res = Ok THEN "lexer"
                 ELSE IF c.res = PanicRes THEN "panicked" ELSE "dropped"
  IN
  /\ pc = "start"
  /\ built(consume(Reader(pos, fail), current_token))
  /\ op' = "new"
  /\ ret' = NoToken
  /\ before' = [pos |-> pos, tok |-> current_token]
  /\ UNCHANGED <<input, yielded, iter_start, sched>>

\* Mutant: peek takes the token out of the lexer.
Peek_takes ==
  /\ pc = "lexer"
  /\ op' = "peek"
  /\ ret' = peek(current_token)
  /\ current_token' = NoToken
  /\ UNCHANGED <<input, pos, pc, res, before, log, yielded, iter_start, sched>>

\* Lexer::peek, called by the lexer's owner.
Peek ==
  /\ pc = "lexer"
  /\ op' = "peek"
  /\ ret' = peek(current_token)
  /\ UNCHANGED <<input, pos, current_token, pc, res, before, log, yielded, iter_start, sched>>

\* Lexer::consume (the spec's advance), called by the lexer's owner.
Advance(fail) ==
  LET advanced(c) ==
        /\ pos' = c.r.pos
        /\ current_token' = c.tok
        /\ res' = c.res
        /\ log' = c.r.log
        /\ pc' = IF c.res = PanicRes THEN "panicked" ELSE "lexer"
  IN
  /\ pc = "lexer"
  /\ advanced(consume(Reader(pos, fail), current_token))
  /\ op' = "consume"
  /\ ret' = NoToken
  /\ before' = [pos |-> pos, tok |-> current_token]
  /\ UNCHANGED <<input, yielded, iter_start, sched>>

\* IntoIterator::into_iter: the lexer moves into the adapter.
IntoIter ==
  /\ pc = "lexer"
  /\ pc' = "iter"
  /\ op' = "into_iter"
  /\ ret' = NoToken
  /\ iter_start' = [pos |-> pos, tok |-> current_token]
  /\ UNCHANGED <<input, pos, current_token, res, before, log, yielded, sched>>

\* Mutant: with no current token, next tries the lexer again.
IterNextNone_retries ==
  LET advanced(c) ==
        /\ pos' = c.r.pos
        /\ current_token' = NoToken
        /\ ret' = c.tok
        /\ log' = c.r.log
  IN
  /\ pc = "iter"
  /\ current_token = NoToken
  /\ advanced(consume(Reader(pos, 0), NoToken))
  /\ op' = "next"
  /\ before' = [pos |-> pos, tok |-> current_token]
  /\ UNCHANGED <<input, pc, res, yielded, iter_start, sched>>

\* IntoIter::next with no current token: take()? returns None at once.
IterNextNone ==
  /\ pc = "iter"
  /\ current_token = NoToken
  /\ op' = "next"
  /\ ret' = NoToken
  /\ before' = [pos |-> pos, tok |-> current_token]
  /\ log' = <<>>
  /\ UNCHANGED <<input, pos, current_token, pc, res, yielded, iter_start, sched>>

\* IntoIter::next with a current token: take it (which leaves None in the
\* lexer), consume().ok(), return it.  The result of consume is dropped; a
\* panic in it unwinds through next.
IterNextSome(fail) ==
  LET advanced(c) ==
        /\ pos' = c.r.pos
        /\ current_token' = c.tok
        /\ log' = c.r.log
        /\ sched' = Append(sched, IF c.res \in {InputReaderErr, PanicRes} THEN fail ELSE 0)
        /\ IF c.res = PanicRes
             THEN pc' = "panicked" /\ ret' = NoToken /\ UNCHANGED yielded
             ELSE /\ pc' = "iter"
                  /\ ret' = current_token
                  /\ yielded' = Append(yielded, current_token)
  IN
  /\ pc = "iter"
  /\ current_token # NoToken
  /\ advanced(consume(Reader(pos, fail), NoToken))
  /\ op' = "next"
  /\ before' = [pos |-> pos, tok |-> current_token]
  /\ UNCHANGED <<input, res, iter_start>>

Next ==
  \/ \E fail \in Faults(pos) : New(fail)
  \/ Peek
  \/ \E fail \in Faults(pos) : Advance(fail)
  \/ IntoIter
  \/ IterNextNone
  \/ \E fail \in Faults(pos) : IterNextSome(fail)

Spec == Init /\ [][Next]_vars

-----------------------------------------------------------------------------
\* The iteration driven to its end: the consumer goes on calling next for as
\* long as a call of next is possible.  Inputs are the sample texts and every
\* text of at most DrivenLen characters.
DrivenLen == 2
DrivenInputs == Strings(Alphabet, DrivenLen) \cup Samples

FairInit == input \in DrivenInputs /\ Init

\* IterNextSome is enabled exactly when the adapter's lexer holds a token, and
\* it is the only step there is then.
CanTake == pc = "iter" /\ current_token # NoToken
Took == CanTake /\ op' = "next"

\* Weak fairness of both cases of IntoIter::next; that of IterNextSome is
\* written out by the definition of WF with CanTake for its enabledness.
FairSpec ==
  /\ FairInit
  /\ [][Next]_vars
  /\ WF_vars(IterNextNone)
  /\ ([]<>(~CanTake) \/ []<><<Took>>_vars)

-----------------------------------------------------------------------------

\* What the properties below speak of.

\* The last call was Lexer::new or Lexer::consume.
LexerCall == op \in {"new", "consume"}

\* The first character that was unconsumed when the last call began.
FirstChar == IF before.pos < Len(input) THEN input[before.pos + 1] ELSE NoChar

\* The characters the last call consumed from the input reader.
Consumed == SubSeq(input, before.pos + 1, pos)

\* The input reader failed a consume during the last call.
ConsumeFailed == \E i \in 1..Len(log) : log[i].call = "consume" /\ log[i].out = "Err"

NotUnderscore(c) == c # "_"
WithoutUnderscores(text) == SelectSeq(text, NotUnderscore)

\* The kind of the token that starts with character c (section 4.1's table).
KindStartingWith(c) ==
  CASE c \in {" ", "\n", "\r", "\t"} -> "Whitespace"
    [] c = "," -> "Comma"
    [] c = "{" -> "OpenBrace"
    [] c = "}" -> "CloseBrace"
    [] c = "[" -> "OpenBracket"
    [] c = "]" -> "CloseBracket"
    [] c = ":" -> "Colon"
    [] c = "n" -> "Literal/Null"
    [] c \in {"t", "f"} -> "Literal/Boolean"
    [] c \in Digits \cup {"-"} -> "Literal/Number"
    [] OTHER -> "Unknown"

-----------------------------------------------------------------------------
\* C1: after a successful new or consume, the current token is absent iff no
\* character remained when the call began; otherwise it is the token that
\* starts at the first character then unconsumed: of that character's kind,
\* with a raw that begins with it.
C1_CurrentTokenAfterSuccess ==
  (LexerCall /\ res = Ok) =>
     /\ (current_token = NoToken) <=> (before.pos >= Len(input))
     /\ current_token # NoToken =>
          /\ current_token.kind = KindStartingWith(FirstChar)
          /\ current_token.raw[1] = FirstChar

C1_Witness ==
  /\ op = "consume" /\ res = Ok /\ before.pos > 0
  /\ current_token.kind = "Literal/Boolean"
  /\ FirstChar = "t"

\* C2: whenever consume returns an error, whatever the token held before, the
\* lexer holds no current token afterwards: peek returns none.
C2_FailedAdvanceLeavesNoToken ==
  (op = "consume" /\ res \in {InputReaderErr, ExpectedDigit} \cup {ExpectedKeyword(k) : k \in {KwNull, KwTrue, KwFalse}})
     => peek(current_token) = NoToken

C2_Witness ==
  /\ op = "consume" /\ res = ExpectedDigit
  /\ before.tok # NoToken
  /\ peek(current_token) = NoToken

\* C3 (the claim as stated): every failure of the input reader's consume during
\* new or consume comes back to the caller as a returned InputReader error.
C3_ReaderFailureIsReturned ==
  (LexerCall /\ ConsumeFailed) => res = InputReaderErr

\* C4 (the claim as stated): a token's raw is, character for character, what
\* was consumed from the input reader while producing it.
C4_RawIsConsumedVerbatim ==
  (op \in {"new", "consume", "next"} /\ current_token # NoToken)
     => current_token.raw = Consumed

\* C4 (amended): a token's raw is what was consumed while producing it, except
\* that a Number's raw leaves out the underscores consumed with it.
C4_RawIsConsumedButUnderscores ==
  (op \in {"new", "consume", "next"} /\ current_token # NoToken)
     => current_token.raw = IF current_token.kind = "Literal/Number"
                              THEN WithoutUnderscores(Consumed)
                              ELSE Consumed

C4_Witness ==
  /\ LexerCall /\ current_token.kind = "Literal/Number"
  /\ \E i \in 1..Len(Consumed) : Consumed[i] = "_"
  /\ Len(current_token.raw) >= 4
  /\ current_token.raw[1] = "-"

\* C5 (the claim as stated): in every state of a constructed lexer, if peek
\* returns none the input reader has no character left.
C5_AbsentOnlyWhenExhausted ==
  (pc = "lexer" /\ peek(current_token) = NoToken) => pos = Len(input)

\* C5 (amended): in every state of a constructed lexer whose most recent new or
\* consume succeeded, if peek returns none the input reader has no character
\* left.
C5_AbsentAfterSuccessOnlyWhenExhausted ==
  (pc = "lexer" /\ res = Ok /\ peek(current_token) = NoToken) => pos = Len(input)

C5_Witness ==
  /\ pc = "lexer" /\ op = "peek" /\ res = Ok
  /\ ret = NoToken /\ pos = Len(input) /\ Len(input) >= 2

\* The tokens a caller sees who drives a lexer at position p holding tok
\* directly: peek, stop on none, else advance, stop on failure; fs gives, for
\* each advance in turn, the consume call of the reader that fails (0: none).
RECURSIVE DirectlyObserved(_, _, _)
DirectlyObserved(p, tok, fs) ==
  LET advanced(c) == IF c.res = Ok THEN DirectlyObserved(c.r.pos, c.tok, Tail(fs)) ELSE <<>>
  IN IF peek(tok) = NoToken \/ fs = <<>> THEN <<>>
     ELSE <<peek(tok)>> \o advanced(consume(Reader(p, Head(fs)), tok))

\* C6 (the claim as stated): after any call of next, the iterator has yielded
\* exactly the tokens a caller driving the same lexer directly, against the
\* same reader failures, has seen, up to and including the last token before
\* the first advance that fails; the failure itself never reaches the consumer.
C6_IteratorYieldsDirectSequence ==
  (op = "next") =>
     /\ yielded = DirectlyObserved(iter_start.pos, iter_start.tok, sched)
     /\ pc # "panicked"

\* C6 restricted to the calls of next that return.
C6_IteratorYieldsDirectSequenceUnlessPanic ==
  (op = "next" /\ pc # "panicked") =>
     yielded = DirectlyObserved(iter_start.pos, iter_start.tok, sched)

\* The lookahead after the first character differs from the rest of kw
\* (or ends before it).
KeywordMismatch(kw) ==
  \E i \in 1..(Len(kw) - 1) :
     \/ before.pos + 1 + i > Len(input)
     \/ input[before.pos + 1 + i] # kw[i + 1]

KeywordOf(c) == CASE c = "n" -> KwNull [] c = "t" -> KwTrue [] OTHER -> KwFalse

\* C7: when the first character is n, t or f and what follows is not the rest
\* of the keyword, a new or consume that got its first character returns
\* ExpectedKeyword(that keyword) with the read position one past the first
\* character.
C7_KeywordFailsAtomically ==
  (LexerCall /\ FirstChar \in {"n", "t", "f"} /\ KeywordMismatch(KeywordOf(FirstChar))
     /\ ~ConsumeFailed)
     => /\ res = ExpectedKeyword(KeywordOf(FirstChar))
        /\ pos = before.pos + 1

C7_Witness ==
  /\ op = "consume" /\ res = ExpectedKeyword(KwTrue)
  /\ Len(input) = before.pos + 3
  /\ SubSeq(input, before.pos + 1, before.pos + 3) = <<"t", "r", "u">>
  /\ pos = before.pos + 1

\* The number grammar of section 4.3, read off the input by position (1-based).
IsDigitAt(i) == i <= Len(input) /\ input[i] \in Digits

\* The end of the digit run that starts at i: the first position from i on that
\* holds neither a digit nor an underscore.
RECURSIVE RunEnd(_)
RunEnd(i) ==
  IF i <= Len(input) /\ input[i] \in Digits \cup {"_"} THEN RunEnd(i + 1) ELSE i

RunHasDigit(i) == \E k \in i..(RunEnd(i) - 1) : input[k] \in Digits

NumStart == before.pos + 1
IntStart == IF input[NumStart] = "-" THEN NumStart + 1 ELSE NumStart
SignWithoutDigit == input[NumStart] = "-" /\ ~IsDigitAt(IntStart)
IntEnd == IF input[IntStart] = "0" THEN IntStart + 1 ELSE RunEnd(IntStart + 1)
HasFraction == IntEnd <= Len(input) /\ input[IntEnd] = "."
FractionWithoutDigit == HasFraction /\ ~RunHasDigit(IntEnd + 1)
MantissaEnd == IF HasFraction THEN RunEnd(IntEnd + 1) ELSE IntEnd
HasExponent == MantissaEnd <= Len(input) /\ input[MantissaEnd] \in {"e", "E"}
ExponentStart ==
  IF MantissaEnd + 1 <= Len(input) /\ input[MantissaEnd + 1] \in {"+", "-"}
    THEN MantissaEnd + 2 ELSE MantissaEnd + 1
ExponentWithoutDigit == HasExponent /\ ~RunHasDigit(ExponentStart)

MandatoryDigitMissing ==
  \/ SignWithoutDigit
  \/ ~SignWithoutDigit /\ FractionWithoutDigit
  \/ ~SignWithoutDigit /\ ~FractionWithoutDigit /\ ExponentWithoutDigit

\* C8: a new or consume that starts at a digit or '-' and meets no reader
\* failure returns ExpectedDigit exactly when a mandatory digit is missing
\* (after the sign, after the decimal point, after the exponent marker and its
\* sign), and otherwise succeeds with one Number token.
C8_ExpectedDigitIffDigitMissing ==
  (LexerCall /\ FirstChar \in Digits \cup {"-"} /\ ~ConsumeFailed) =>
     IF MandatoryDigitMissing
       THEN res = ExpectedDigit
       ELSE res = Ok /\ current_token.kind = "Literal/Number"

C8_Witness ==
  /\ op = "consume" /\ res = ExpectedDigit /\ ~ConsumeFailed
  /\ FirstChar \in Digits /\ ExponentWithoutDigit /\ HasFraction /\ ~FractionWithoutDigit
  /\ input[MantissaEnd + 1] = "+"

\* C9: a Number token's raw holds no underscore and is what the call consumed
\* with the underscores taken out, and the call consumed every underscore of
\* its digit runs: one is left behind the token only after the integer part 0.
C9_UnderscoresElided ==
  (op \in {"new", "consume", "next"} /\ current_token.kind = "Literal/Number") =>
     /\ \A i \in 1..Len(current_token.raw) : current_token.raw[i] # "_"
     /\ Len(current_token.raw) + Cardinality({i \in 1..Len(Consumed) : Consumed[i] = "_"})
          = Len(Consumed)
     /\ \A i \in 1..Len(current_token.raw) :
          current_token.raw[i] = WithoutUnderscores(Consumed)[i]
     /\ (pos < Len(input) /\ input[pos + 1] = "_")
          => current_token.raw \in {<<"0">>, <<"-", "0">>}

C9_Witness ==
  /\ op = "new"
  /\ input = <<"1", "_", "0", "0", "0">>
  /\ current_token = Token("Literal/Number", <<"1", "0", "0", "0">>)
  /\ pos = 5

SingleChars == {" ", "\n", "\r", "\t", ",", "{", "}", "[", "]", ":"}

\* C10: when the next character is whitespace, punctuation or any character
\* other than n, t, f, a digit or '-', new or consume makes one consume(1) call
\* on the reader and, when that succeeds, holds the token of the matching kind
\* whose raw is that character; a whitespace character after another is a
\* token of its own.
C10_SingleCharacterTokens ==
  (LexerCall /\ FirstChar # NoChar /\ FirstChar \notin {"n", "t", "f", "-"} \cup Digits) =>
     /\ {i \in 1..Len(log) : log[i].call = "consume"} = {Len(log)}
     /\ log[Len(log)].arg = 1
     /\ IF ConsumeFailed
          THEN res = InputReaderErr /\ current_token = NoToken
          ELSE /\ res = Ok
               /\ pos = before.pos + 1
               /\ current_token.raw = <<FirstChar>>
               /\ current_token.kind =
                    (CASE FirstChar \in {" ", "\n", "\r", "\t"} -> "Whitespace"
                       [] FirstChar = "," -> "Comma"
                       [] FirstChar = "{" -> "OpenBrace"
                       [] FirstChar = "}" -> "CloseBrace"
                       [] FirstChar = "[" -> "OpenBracket"
                       [] FirstChar = "]" -> "CloseBracket"
                       [] FirstChar = ":" -> "Colon"
                       [] OTHER -> "Unknown")

C10_Witness ==
  /\ op = "consume" /\ res = Ok
  /\ before.tok = Token("Whitespace", <<" ">>)
  /\ current_token = Token("Whitespace", <<" ">>)
  /\ pos = before.pos + 1

\* A call that ran Lexer::consume: new, consume, or a next that took a token.
RanConsume == op \in {"new", "consume"} \/ (op = "next" /\ before.tok # NoToken)

\* C11: when the integer part of a Number is the digit 0, the token takes
\* nothing more for its integer part: what it consumed ends with the 0 or goes
\* on with '.', 'e' or 'E', and so does its raw; a digit that follows the 0 is
\* left to the next consume, which lexes it as the start of a Number of its own.
C11_LeadingZeroEndsIntegerPart ==
  /\ (RanConsume /\ current_token.kind = "Literal/Number" /\ input[IntStart] = "0") =>
        /\ pos = IntStart \/ input[IntStart + 1] \in {".", "e", "E"}
        /\ current_token.raw[IntStart - before.pos] = "0"
        /\ \/ Len(current_token.raw) = IntStart - before.pos
           \/ current_token.raw[IntStart - before.pos + 1] \in {".", "e", "E"}
  /\ (op = "consume" /\ res = Ok /\ before.tok.kind = "Literal/Number"
        /\ before.tok.raw \in {<<"0">>, <<"-", "0">>} /\ FirstChar \in Digits) =>
        /\ current_token.kind = "Literal/Number"
        /\ current_token.raw[1] = FirstChar

C11_Witness ==
  /\ input = <<"0", "1">>
  /\ op = "consume" /\ res = Ok
  /\ before.tok = Token("Literal/Number", <<"0">>)
  /\ current_token = Token("Literal/Number", <<"1">>)

\* The index in log of the last consume call before entry i, 0 when none.
PrevConsume(i) ==
  LET earlier == {j \in 1..(i - 1) : log[j].call = "consume"}
  IN IF earlier = {} THEN 0 ELSE CHOOSE j \in earlier : \A m \in earlier : m <= j

\* C12: every consume(count) the lexer issues to the input reader has
\* count >= 1 and, for each offset 0..count-1, a peek at that offset that
\* returned a character since the previous consume; the position never passes
\* the end of the input.
C12_ConsumeOnlyWhatWasPeeked ==
  /\ \A i \in 1..Len(log) :
        log[i].call = "consume" =>
          /\ log[i].arg >= 1
          /\ \A k \in 0..(log[i].arg - 1) :
                \E j \in (PrevConsume(i) + 1)..(i - 1) :
                   /\ log[j].call = "peek"
                   /\ log[j].arg = k
                   /\ log[j].out # NoChar
  /\ pos <= Len(input)

C12_Witness ==
  /\ res = Ok
  /\ pos = Len(input)
  /\ \E i \in 1..Len(log) : log[i].call = "consume" /\ log[i].arg = 4

\* C13: peek has no side effect and is idempotent: it returns the current
\* token, leaves the current token and the position as they were, calls the
\* input reader not at all, and a peek right after a peek returns the same.
C13_PeekIsPure ==
  [][op' = "peek" =>
       /\ ret' = current_token
       /\ current_token' = current_token
       /\ pos' = pos
       /\ log' = log
       /\ pc' = pc
       /\ (op = "peek" => ret' = ret)]_vars

C13_Witness ==
  /\ op = "peek"
  /\ ret # NoToken
  /\ ret = current_token
  /\ pos < Len(input)

\* C14: construction performs exactly one classification step: its outcome is
\* that of one consume on the fresh lexer (same result, token, position and
\* reader calls), and a lexer exists afterwards iff that step succeeded.  On
\* empty input it succeeds with no token and without consuming, and iterating
\* yields nothing; on non-empty input a success exposes the first token, which
\* begins with the first character.
C14_ConstructionIsOneStep ==
  /\ op = "new" =>
        /\ before = [pos |-> 0, tok |-> NoToken]
        /\ \E f \in Faults(0) :
              LET same(c) == /\ res = c.res
                             /\ current_token = c.tok
                             /\ pos = c.r.pos
                             /\ log = c.r.log
              IN same(consume(Reader(0, f), NoToken))
        /\ (pc = "lexer") <=> (res = Ok)
        /\ input = <<>> => /\ res = Ok
                           /\ current_token = NoToken
                           /\ pos = 0
        /\ (input # <<>> /\ res = Ok) => /\ current_token # NoToken
                                         /\ current_token.raw[1] = input[1]
                                         /\ pos >= 1
        /\ (input # <<>> /\ res # Ok) => current_token = NoToken
  /\ (input = <<>> /\ pc = "iter") => /\ yielded = <<>>
                                      /\ op = "next" => ret = NoToken

C14_Witness ==
  /\ op = "new"
  /\ res = Ok
  /\ pc = "lexer"
  /\ current_token = Token("Literal/Null", KwNull)
  /\ pos < Len(input)

\* C14, the failing construction and the empty one.
C14_WitnessFailure == op = "new" /\ res = ExpectedDigit /\ pc = "dropped" /\ pos = 2

C14_WitnessEmpty == input = <<>> /\ pc = "iter" /\ op = "next"

\* tok is one of the three keyword tokens.
KeywordToken(tok) ==
  tok \in {Token("Literal/Null", KwNull), Token("Literal/Boolean", KwTrue),
           Token("Literal/Boolean", KwFalse)}

\* C15: when the first character is n, t or f and the rest of the keyword
\* follows, a new or consume whose reader calls all succeed returns Ok having
\* consumed exactly len(keyword) characters, with the token Literal/Null (for
\* null) or Literal/Boolean (for true, false) whose raw is the keyword; the
\* character after the keyword is left for the next consume, whose token
\* begins with it.
C15_KeywordSuccess ==
  /\ (LexerCall /\ FirstChar \in {"n", "t", "f"} /\ ~KeywordMismatch(KeywordOf(FirstChar))
        /\ ~ConsumeFailed) =>
        /\ res = Ok
        /\ pos = before.pos + Len(KeywordOf(FirstChar))
        /\ Consumed = KeywordOf(FirstChar)
        /\ current_token = Token(IF FirstChar = "n" THEN "Literal/Null" ELSE "Literal/Boolean",
                                 KeywordOf(FirstChar))
  /\ (op = "consume" /\ KeywordToken(before.tok) /\ res = Ok /\ FirstChar # NoChar) =>
        /\ before.pos >= Len(before.tok.raw)
        /\ SubSeq(input, before.pos - Len(before.tok.raw) + 1, before.pos) = before.tok.raw
        /\ current_token.raw[1] = FirstChar

C15_Witness ==
  /\ input = <<"t", "r", "u", "e", "e">>
  /\ op = "consume" /\ res = Ok
  /\ before.tok = Token("Literal/Boolean", KwTrue)
  /\ before.pos = 4
  /\ current_token = Token("Unknown", <<"e">>)

\* The iterator's last next returned none.
ReturnedNone == pc = "iter" /\ op = "next" /\ ret = NoToken

\* C16: the iterator cannot be restarted: when next has returned none the
\* lexer holds no token, and every step after it is a next that returns none,
\* yields nothing and makes no reader call, so the position stays where it is
\* even when characters remain unconsumed.
C16_IteratorStaysExhausted ==
  /\ [](ReturnedNone => current_token = NoToken)
  /\ [][ReturnedNone =>
          /\ op' = "next"
          /\ ret' = NoToken
          /\ log' = <<>>
          /\ pos' = pos
          /\ current_token' = NoToken
          /\ yielded' = yielded
          /\ pc' = "iter"]_vars

C16_Witness ==
  /\ ReturnedNone
  /\ pos < Len(input)
  /\ yielded # <<>>
  /\ log = <<>>

\* What holds of progress: a call that ran consume with a character left made
\* at least one consume call to the reader, moved the position forward unless
\* a reader call failed, and the iterator has yielded no more tokens than
\* characters were consumed.
C17_ProgressPerCall ==
  /\ (RanConsume /\ before.pos < Len(input)) =>
        /\ \E i \in 1..Len(log) : log[i].call = "consume" /\ log[i].arg >= 1
        /\ ~ConsumeFailed => pos > before.pos
  /\ Len(yielded) <= pos
  /\ pos <= Len(input)

\* C17: progress and termination: every advance terminates and consumes at
\* least one character when one is left, so that the iteration adapter, once
\* started and driven by its consumer, eventually returns none.
C17_IterationEndsWithNone == (pc = "iter") ~> ReturnedNone

\* What holds of it: a driven iteration ends with none or with the panic of an
\* unwrap in match_number.
C17_IterationEndsWithNoneOrPanic == (pc = "iter") ~> (ReturnedNone \/ pc = "panicked")

\* Every token the state holds: the lexer's, the one the last call found or
\* returned, and those the iterator has yielded.
ProducedTokens ==
  ({current_token, ret, before.tok} \cup {yielded[i] : i \in 1..Len(yielded)}) \ {NoToken}

\* The first index from i on at which text has no digit, Len(text) + 1 if none.
RECURSIVE SkipDigits(_, _)
SkipDigits(text, i) ==
  IF i <= Len(text) /\ text[i] \in Digits THEN SkipDigits(text, i + 1) ELSE i

\* text matches -?(0|[1-9][0-9]*)(\.[0-9]+)?([eE][+-]?[0-9]+)? in full.  Each
\* part maps the index it starts at to the index after it, 0 when it fails.
NumberGrammar(text) ==
  LET has(i, chars) == i <= Len(text) /\ text[i] \in chars
      run(j) == IF SkipDigits(text, j) = j THEN 0 ELSE SkipDigits(text, j)
      sign == IF has(1, {"-"}) THEN 2 ELSE 1
      integer(i) == IF ~has(i, Digits) THEN 0
                    ELSE IF text[i] = "0" THEN i + 1
                    ELSE SkipDigits(text, i + 1)
      fraction(i) == IF i = 0 THEN 0
                     ELSE IF has(i, {"."}) THEN run(i + 1)
                     ELSE i
      exponent(i) == IF i = 0 THEN 0
                     ELSE IF ~has(i, {"e", "E"}) THEN i
                     ELSE IF has(i + 1, {"+", "-"}) THEN run(i + 2)
                     ELSE run(i + 1)
  IN exponent(fraction(integer(sign))) = Len(text) + 1

\* C18: the raw text of every Literal/Number token matches, in full, the
\* grammar -?(0|[1-9][0-9]*)(\.[0-9]+)?([eE][+-]?[0-9]+)?.
C18_NumberRawMatchesGrammar ==
  \A tok \in ProducedTokens : tok.kind = "Literal/Number" => NumberGrammar(tok.raw)

C18_Witness ==
  /\ LexerCall /\ res = Ok
  /\ current_token = Token("Literal/Number", <<"-", "2", ".", "5", "e", "-", "1">>)
  /\ NumberGrammar(current_token.raw)
  /\ ~NumberGrammar(<<"1", "e">>) /\ ~NumberGrammar(<<"0", "1">>) /\ ~NumberGrammar(<<"-">>)
  /\ ~NumberGrammar(<<"1", ".">>) /\ ~NumberGrammar(<<"1", "_", "0">>)
  /\ NumberGrammar(<<"1", "0", "E", "+", "0", "1">>)

\* An entry of the reader's log that is a consume call.
IsConsumeCall(e) == e.call = "consume"

\* C19: when the first character is '-' and a character that is no digit
\* follows it, a new or consume whose reader calls all succeed returns
\* ExpectedDigit having consumed both the '-' and that character, each by a
\* consume of one, and leaves no token; the position, where the next consume
\* starts, is past both.
C19_SignThenNonDigitConsumesBoth ==
  (LexerCall /\ FirstChar = "-" /\ before.pos + 1 < Len(input)
     /\ input[before.pos + 2] \notin Digits /\ ~ConsumeFailed) =>
     /\ res = ExpectedDigit
     /\ current_token = NoToken
     /\ pos = before.pos + 2
     /\ Consumed = <<"-", input[before.pos + 2]>>
     /\ SelectSeq(log, IsConsumeCall)
          = << [call |-> "consume", arg |-> 1, out |-> "Ok"],
               [call |-> "consume", arg |-> 1, out |-> "Ok"] >>

C19_Witness ==
  /\ input = <<"-", "x", "1">>
  /\ op = "new"
  /\ res = ExpectedDigit
  /\ pos = 2
  /\ current_token = NoToken

\* C19, in a consume after a token.
C19_WitnessAfterToken ==
  /\ op = "consume" /\ before.tok # NoToken
  /\ FirstChar = "-" /\ res = ExpectedDigit /\ pos = before.pos + 2
  /\ input[pos] \notin Digits

\* The raw texts a token of the given kind may have, as a test of tok.raw.
KindAgreesWithRaw(tok) ==
  /\ tok.raw # <<>>
  /\ CASE tok.kind = "Literal/Null" -> tok.raw = <<"n", "u", "l", "l">>
       [] tok.kind = "Literal/Boolean" ->
            tok.raw \in {<<"t", "r", "u", "e">>, <<"f", "a", "l", "s", "e">>}
       [] tok.kind = "Literal/Number" -> tok.raw[1] \in Digits \cup {"-"}
       [] tok.kind = "Comma" -> tok.raw = <<",">>
       [] tok.kind = "OpenBrace" -> tok.raw = <<"{">>
       [] tok.kind = "CloseBrace" -> tok.raw = <<"}">>
       [] tok.kind = "OpenBracket" -> tok.raw = <<"[">>
       [] tok.kind = "CloseBracket" -> tok.raw = <<"]">>
       [] tok.kind = "Colon" -> tok.raw = <<":">>
       [] tok.kind = "Whitespace" ->
            Len(tok.raw) = 1 /\ tok.raw[1] \in {" ", "\n", "\r", "\t"}
       [] tok.kind = "Unknown" ->
            /\ Len(tok.raw) = 1
            /\ tok.raw[1] \notin SingleChars \cup {"n", "t", "f", "-"} \cup Digits
       [] OTHER -> FALSE

\* C20: kind and raw agree for every token that exists: raw is never empty;
\* Literal/Null has raw null; Literal/Boolean has raw true or false;
\* Literal/Number has a raw starting with a digit or '-'; a punctuation kind
\* has its one character as raw; Whitespace has one of space, newline,
\* carriage return, tab; Unknown has one character that is dispatched to no
\* other kind.
C20_KindAndRawAgree == \A tok \in ProducedTokens : KindAgreesWithRaw(tok)

C20_Witness ==
  /\ input = <<"[", "t", "r", "u", "e", ",", "n", "u", "l", "l", "]">>
  /\ pc = "iter"
  /\ Len(yielded) = 5
  /\ yielded[2] = Token("Literal/Boolean", KwTrue)
  /\ yielded[4] = Token("Literal/Null", KwNull)
  /\ yielded[5] = Token("CloseBracket", <<"]">>)

\* C20, for Unknown, Whitespace and Number tokens.
C20_WitnessOthers ==
  /\ Len(yielded) = 3
  /\ {yielded[i].kind : i \in 1..3} = {"Unknown", "Whitespace", "Literal/Number"}

====
